---- MODULE Spec2Model ----
(***************************************************************************)
(* Supply reconciliation of a legacy ledger export                         *)
(* (tools/genesis/src/supply.rs): the classifier inc_supply and the fold   *)
(* get_supply_struct over a vector of LegacyRecovery records.              *)
(*                                                                         *)
(* Supply fields are f64 in the source.  Every value that reaches them is  *)
(* a non-negative integer (a u64 cast, a sum, or a difference guarded by   *)
(* amount > unlocked), so an f64 is modelled by the integer it denotes and *)
(* every cast and every arithmetic operation rounds to the nearest         *)
(* representable value, ties to even.  The significand has MantBits bits   *)
(* (53 in the source); Big = 2^MantBits is the first value whose successor *)
(* is not representable.                                                   *)
(***************************************************************************)
EXTENDS Integers, Sequences, FiniteSets, TLC

VARIABLES rec, map_dd_to_slow, dd_list, acc, pc, i, result, plan

vars == <<rec, map_dd_to_slow, dd_list, acc, pc, i, result, plan>>

(* ---------------------------- bounds ----------------------------------- *)

\* significand width of the modelled float (f64: 53)
MantBits == 8

\* longest input vector given to get_supply_struct
MaxRecs == 4

\* number of records classified in a row by the classifier specification
MaxSteps == 2

Big == 2 ^ MantBits

(* ---------------------------- Option ----------------------------------- *)

None == <<>>

Some(x) == <<x>>

is_some(o) == o # <<>>

unwrap(o) == o[1]

(* ---------------------------- f64 -------------------------------------- *)

RECURSIVE Log2(_)
Log2(n) == IF n < 2 THEN 0 ELSE 1 + Log2(n \div 2)

\* round to nearest representable value, ties to even
Round(n) ==
    IF n < Big THEN n
    ELSE LET ulp  == 2 ^ (Log2(n) - MantBits + 1)
             q    == n \div ulp
             r    == n % ulp
             half == ulp \div 2
         IN  IF r > half \/ (r = half /\ q % 2 = 1)
             THEN (q + 1) * ulp
             ELSE q * ulp

\* `x as f64` for an unsigned integer x
as_f64(x) == Round(x)

\* f64 addition
FAdd(a, b) == Round(a + b)

\* f64 subtraction, used only where a > b
FSub(a, b) == Round(a - b)

(* ---------------------------- data ------------------------------------- *)

\* Supply { total: 0.0, ... }
zeroth ==
    [ total |-> 0, normal |-> 0, validator |-> 0, slow_total |-> 0,
      slow_locked |-> 0, slow_validator_locked |-> 0, slow_unlocked |-> 0,
      donor_directed |-> 0 ]

\* the fields of LegacyRecovery that supply.rs reads
LegacyRecovery(account, balance, slow_wallet, val_cfg, cumulative_deposits, comm_wallet) ==
    [ account |-> account, balance |-> balance, slow_wallet |-> slow_wallet,
      val_cfg |-> val_cfg, cumulative_deposits |-> cumulative_deposits,
      comm_wallet |-> comm_wallet ]

\* Vec::contains
contains(list, a) == \E k \in 1..Len(list) : list[k] = a

(* ---------------------------- inc_supply ------------------------------- *)

\* the balance of a record as an f64; absent is 0.0
Amount(r) == IF is_some(r.balance) THEN as_f64(unwrap(r.balance)) ELSE 0

\* inc_supply with the donor-directed test as a separate `if`: the record
\* falls through to the remaining classification as well
inc_supply_fallthrough(a, r, dd_wallet_list) ==
    LET amount == Amount(r)
        a1     == [a EXCEPT !.total = FAdd(@, amount)]
        a2     == IF contains(dd_wallet_list, unwrap(r.account))
                  THEN [a1 EXCEPT !.donor_directed = FAdd(@, amount)]
                  ELSE a1
    IN  IF is_some(r.slow_wallet)
        THEN [a2 EXCEPT !.slow_total = FAdd(@, amount)]
        ELSE IF r.cumulative_deposits
        THEN [a2 EXCEPT !.slow_locked = FAdd(@, amount),
                        !.slow_total = FAdd(@, amount)]
        ELSE [a2 EXCEPT !.normal = FAdd(@, amount)]

\* the slow-wallet part of inc_supply, shared by the variants below
SlowPart(a1, r, amount, lockedTest(_, _), nested, valAmount(_, _)) ==
    LET unlocked == unwrap(r.slow_wallet)
        a2 == [a1 EXCEPT !.slow_total = FAdd(@, amount)]
        a3 == IF unlocked > 0 THEN [a2 EXCEPT !.slow_unlocked = FAdd(@, amount)] ELSE a2
    IN  IF (unlocked > 0 \/ ~ nested) /\ lockedTest(amount, as_f64(unlocked))
        THEN LET locked == FSub(amount, as_f64(unlocked))
                 a4 == [a3 EXCEPT !.slow_locked = FAdd(@, locked)]
             IN  IF r.val_cfg
                 THEN [a4 EXCEPT !.validator = FAdd(@, valAmount(amount, locked)),
                                 !.slow_validator_locked = FAdd(@, locked)]
                 ELSE a4
        ELSE a3

Variant(a, r, dd_wallet_list, slowFirst, lockedTest(_, _), nested, valAmount(_, _)) ==
    LET amount == Amount(r)
        a1     == [a EXCEPT !.total = FAdd(@, amount)]
        inDD   == contains(dd_wallet_list, unwrap(r.account))
    IN  IF inDD /\ ~ (slowFirst /\ is_some(r.slow_wallet))
        THEN [a1 EXCEPT !.donor_directed = FAdd(@, amount)]
        ELSE IF is_some(r.slow_wallet)
        THEN SlowPart(a1, r, amount, lockedTest, nested, valAmount)
        ELSE IF r.cumulative_deposits
        THEN [a1 EXCEPT !.slow_locked = FAdd(@, amount),
                        !.slow_total = FAdd(@, amount)]
        ELSE [a1 EXCEPT !.normal = FAdd(@, amount)]

Gt(x, y) == x > y

Ge(x, y) == x >= y

Full(amount, locked) == amount

LockedOnly(amount, locked) == locked

\* inc_supply testing slow_wallet before the donor-directed list
inc_supply_slow_first(a, r, dd_wallet_list) ==
    Variant(a, r, dd_wallet_list, TRUE, Gt, TRUE, Full)

\* inc_supply with the locked test outside `if sl.unlocked > 0`
inc_supply_unnested(a, r, dd_wallet_list) ==
    Variant(a, r, dd_wallet_list, FALSE, Gt, FALSE, Full)

\* inc_supply with `amount >= sl.unlocked` for the locked test
inc_supply_ge(a, r, dd_wallet_list) ==
    Variant(a, r, dd_wallet_list, FALSE, Ge, TRUE, Full)

\* inc_supply adding only the locked part to validator
inc_supply_val_locked(a, r, dd_wallet_list) ==
    Variant(a, r, dd_wallet_list, FALSE, Gt, TRUE, LockedOnly)

\* inc_supply counting every validator's balance, whatever its bucket
inc_supply_val_any(a, r, dd_wallet_list) ==
    LET b == Variant(a, r, dd_wallet_list, FALSE, Gt, TRUE, Full)
    IN  IF r.val_cfg THEN [b EXCEPT !.validator = FAdd(a.validator, Amount(r))] ELSE b

\* inc_supply whose cumulative-deposit branch forgets slow_total
inc_supply_cum_locked(a, r, dd_wallet_list) ==
    LET b == Variant(a, r, dd_wallet_list, FALSE, Gt, TRUE, Full)
    IN  IF ~ contains(dd_wallet_list, unwrap(r.account))
           /\ ~ is_some(r.slow_wallet) /\ r.cumulative_deposits
        THEN [b EXCEPT !.slow_total = a.slow_total]
        ELSE b

\* inc_supply without the cumulative-deposit branch
inc_supply_no_cum(a, r, dd_wallet_list) ==
    LET b == Variant(a, r, dd_wallet_list, FALSE, Gt, TRUE, Full)
    IN  IF ~ contains(dd_wallet_list, unwrap(r.account))
           /\ ~ is_some(r.slow_wallet) /\ r.cumulative_deposits
        THEN [a EXCEPT !.total = FAdd(@, Amount(r)), !.normal = FAdd(@, Amount(r))]
        ELSE b

\* inc_supply with `acc.donor_directed = amount` for `+=`
inc_supply_dd_set(a, r, dd_wallet_list) ==
    LET b == Variant(a, r, dd_wallet_list, FALSE, Gt, TRUE, Full)
    IN  IF contains(dd_wallet_list, unwrap(r.account))
        THEN [b EXCEPT !.donor_directed = Amount(r)]
        ELSE b

\* inc_supply with `acc.normal = amount` for `+=`
inc_supply_normal_set(a, r, dd_wallet_list) ==
    LET b == Variant(a, r, dd_wallet_list, FALSE, Gt, TRUE, Full)
    IN  IF b.normal # a.normal THEN [b EXCEPT !.normal = Amount(r)] ELSE b

\* the body of inc_supply for a record whose account is present
inc_supply(a, r, dd_wallet_list) ==
    LET amount == Amount(r)
        a1     == [a EXCEPT !.total = FAdd(@, amount)]
    IN  IF contains(dd_wallet_list, unwrap(r.account))
        THEN [a1 EXCEPT !.donor_directed = FAdd(@, amount)]
        ELSE IF is_some(r.slow_wallet)
        THEN LET unlocked == unwrap(r.slow_wallet)
                 a2 == [a1 EXCEPT !.slow_total = FAdd(@, amount)]
             IN  IF unlocked > 0
                 THEN LET a3 == [a2 EXCEPT !.slow_unlocked = FAdd(@, amount)]
                      IN  IF amount > as_f64(unlocked)
                          THEN LET locked == FSub(amount, as_f64(unlocked))
                                   a4 == [a3 EXCEPT !.slow_locked = FAdd(@, locked)]
                               IN  IF r.val_cfg
                                   THEN [a4 EXCEPT !.validator = FAdd(@, amount),
                                                   !.slow_validator_locked = FAdd(@, locked)]
                                   ELSE a4
                          ELSE a3
                 ELSE a2
        ELSE IF r.cumulative_deposits
        THEN [a1 EXCEPT !.slow_locked = FAdd(@, amount),
                        !.slow_total = FAdd(@, amount)]
        ELSE [a1 EXCEPT !.normal = FAdd(@, amount)]

(* ---------------------------- get_supply_struct ------------------------ *)

\* find returning the last record with a registry
FindRegistry_last(rs) ==
    IF \E k \in 1..Len(rs) : is_some(rs[k].comm_wallet)
    THEN CHOOSE k \in 1..Len(rs) :
            /\ is_some(rs[k].comm_wallet)
            /\ \A j \in (k + 1)..Len(rs) : ~ is_some(rs[j].comm_wallet)
    ELSE 0

\* rec.iter().find(|el| el.comm_wallet.is_some()): index of the first hit, 0 if none
FindRegistry(rs) ==
    IF \E k \in 1..Len(rs) : is_some(rs[k].comm_wallet)
    THEN CHOOSE k \in 1..Len(rs) :
            /\ is_some(rs[k].comm_wallet)
            /\ \A j \in 1..(k - 1) : ~ is_some(rs[j].comm_wallet)
    ELSE 0

\* the registry list used as it is
EffectiveList_unfiltered(list, map) == list

\* the registry list with the addresses of map_dd_to_slow filtered out
EffectiveList(list, map) ==
    LET keep(e) == ~ contains(map, e) IN SelectSeq(list, keep)

\* try_fold(acc, inc_supply) over a vector: Ok(acc), or the panic of
\* r.account.unwrap()
RECURSIVE try_fold(_, _, _)
try_fold(a, rs, dd_wallet_list) ==
    IF rs = <<>> THEN [tag |-> "ok", supply |-> a]
    ELSE IF ~ is_some(Head(rs).account) THEN [tag |-> "panic", supply |-> zeroth]
    ELSE try_fold(inc_supply(a, Head(rs), dd_wallet_list), Tail(rs), dd_wallet_list)

\* get_supply_struct as a function of its two arguments
get_supply_struct(rs, map) ==
    IF FindRegistry(rs) = 0 THEN [tag |-> "err", supply |-> zeroth]
    ELSE try_fold(zeroth, rs,
                  EffectiveList(unwrap(rs[FindRegistry(rs)].comm_wallet), map))

(* ---------------------------- f64 with fractions --------------------- *)

\* The escrow arithmetic leaves the integers.  There an f64 is the pair
\* <<n, d>> of the dyadic rational n / d in lowest terms (d a power of two),
\* rounded to MantBits significant bits; d = 0 marks NaN (n = 0) and the
\* infinities (n = 1, n = -1).

NaN == <<0, 0>>

Inf(sgn) == <<sgn, 0>>

IsFinite(x) == x[2] # 0

Abs(n) == IF n < 0 THEN 0 - n ELSE n

Sgn(n) == IF n < 0 THEN 0 - 1 ELSE IF n = 0 THEN 0 ELSE 1

\* an integer-valued f64 as a pair
Q(n) == <<n, 1>>

RECURSIVE Reduce(_, _)
Reduce(n, d) ==
    IF d > 1 /\ n % 2 = 0 THEN Reduce(n \div 2, d \div 2) ELSE <<n, d>>

\* the exponent of two in a positive integer
RECURSIVE TwoExp(_)
TwoExp(n) == IF n % 2 = 0 THEN 1 + TwoExp(n \div 2) ELSE 0

\* the rational num / den (den > 0) rounded to the nearest f64, ties to even
RoundQ(num, den) ==
    IF num = 0 THEN <<0, 1>>
    ELSE LET a     == Abs(num)
             j     == TwoExp(den)
             dodd  == den \div (2 ^ j)
             \* a / den >= 2^e
             ge(e) == IF j + e >= 0 THEN a >= dodd * 2 ^ (j + e)
                                    ELSE a * 2 ^ (0 - (j + e)) >= dodd
             e0    == Log2(a) - Log2(den)
             e     == IF ge(e0) THEN e0 ELSE e0 - 1
             sh    == e - (MantBits - 1)
             t     == j + sh
             N     == IF t >= 0 THEN a ELSE a * 2 ^ (0 - t)
             D     == IF t >= 0 THEN dodd * 2 ^ t ELSE dodd
             q     == N \div D
             r     == N % D
             q1    == IF 2 * r > D \/ (2 * r = D /\ q % 2 = 1) THEN q + 1 ELSE q
         IN  IF sh >= 0 THEN <<Sgn(num) * q1 * 2 ^ sh, 1>>
             ELSE Reduce(Sgn(num) * q1, 2 ^ (0 - sh))

IsZero(x) == IsFinite(x) /\ x[1] = 0

\* f64 multiplication
FMulQ(x, y) ==
    IF IsFinite(x) /\ IsFinite(y) THEN RoundQ(x[1] * y[1], x[2] * y[2])
    ELSE IF x = NaN \/ y = NaN \/ IsZero(x) \/ IsZero(y) THEN NaN
    ELSE Inf(Sgn(x[1]) * Sgn(y[1]))

\* f64 division: x / 0.0 is an infinity, 0.0 / 0.0 is NaN
FDivQ(x, y) ==
    IF IsFinite(x) /\ IsFinite(y)
    THEN IF y[1] = 0
         THEN IF x[1] = 0 THEN NaN ELSE Inf(Sgn(x[1]))
         ELSE RoundQ(Sgn(y[1]) * x[1] * y[2], x[2] * Abs(y[1]))
    ELSE NaN

Max(m, n) == IF m >= n THEN m ELSE n

\* f64 addition
FAddQ(x, y) ==
    IF IsFinite(x) /\ IsFinite(y)
    THEN LET d == Max(x[2], y[2])
         IN  RoundQ(x[1] * (d \div x[2]) + y[1] * (d \div y[2]), d)
    ELSE IF x = NaN \/ y = NaN THEN NaN
    ELSE IF IsFinite(y) THEN x
    ELSE IF IsFinite(x) \/ x = y THEN y
    ELSE NaN

\* f64 negation
FNegQ(x) == <<0 - x[1], x[2]>>

\* f64 subtraction
FSubQ(x, y) == FAddQ(x, FNegQ(y))

\* f64 ==, false for NaN
FEqQ(x, y) == x # NaN /\ y # NaN /\ x = y

(* ---------------------------- the escrow arithmetic -------------------- *)

\* future-uses fractions as f64 literals; the source has 0.70
Fractions == { RoundQ(7, 10), RoundQ(1, 2), RoundQ(1, 10), RoundQ(1, 16) }

\* the escrow arithmetic with `slow_total + to_escrow` for new_slow
planner_plus(s, f) ==
    LET target_future_uses == FMulQ(Q(s.total), f)
        remaining_to_fund  == FSubQ(target_future_uses, Q(s.donor_directed))
        ratio              == FDivQ(remaining_to_fund, Q(s.slow_validator_locked))
        to_escrow          == FMulQ(ratio, Q(s.slow_validator_locked))
        new_slow           == FAddQ(Q(s.slow_total), to_escrow)
    IN  [ f |-> f, ratio |-> ratio, to_escrow |-> to_escrow, new_slow |-> new_slow,
          sum_all |-> FAddQ(FAddQ(FAddQ(to_escrow, new_slow), Q(s.normal)),
                            Q(s.donor_directed)) ]

\* lines 134-146: the figures computed from a Supply and a fraction f
planner(s, f) ==
    LET target_future_uses == FMulQ(Q(s.total), f)
        remaining_to_fund  == FSubQ(target_future_uses, Q(s.donor_directed))
        ratio              == FDivQ(remaining_to_fund, Q(s.slow_validator_locked))
        to_escrow          == FMulQ(ratio, Q(s.slow_validator_locked))
        new_slow           == FSubQ(Q(s.slow_total), to_escrow)
    IN  [ f |-> f, ratio |-> ratio, to_escrow |-> to_escrow, new_slow |-> new_slow,
          sum_all |-> FAddQ(FAddQ(FAddQ(to_escrow, new_slow), Q(s.normal)),
                            Q(s.donor_directed)) ]

(* ---------------------------- inputs ----------------------------------- *)

\* record shapes of the input vectors: the system record with the registry,
\* ordinary, slow validator and community accounts, a record without
\* account, and a second registry on an account with a balance
CoreRecords ==
    { LegacyRecovery(Some(0), None, None, FALSE, FALSE, Some(<<3>>)),
      LegacyRecovery(Some(1), Some(100), None, FALSE, FALSE, None),
      LegacyRecovery(Some(2), Some(100), Some(40), TRUE, FALSE, None),
      LegacyRecovery(Some(3), Some(50), None, FALSE, FALSE, None),
      LegacyRecovery(Some(1), Some(Big), None, FALSE, FALSE, None),
      LegacyRecovery(Some(3), Some(1), None, FALSE, TRUE, None),
      LegacyRecovery(None, Some(1), None, FALSE, FALSE, None),
      LegacyRecovery(Some(0), Some(50), None, FALSE, FALSE, Some(<<1, 3>>)) }

\* operator override lists
Overrides == { <<>>, <<3>> }

BoundedSeq(S, n) == UNION { [1..m -> S] : m \in 0..n }

\* records handed to the classifier alone
ClassifyRecords ==
    { LegacyRecovery(a, b, s, v, c, None) :
        a \in {None, Some(1), Some(2)},
        b \in {None, Some(1), Some(100), Some(Big), Some(Big + 1)},
        s \in {None, Some(0), Some(40), Some(Big)},
        v \in BOOLEAN, c \in BOOLEAN }

\* effective donor-directed lists handed to the classifier alone
ClassifyLists == { <<>>, <<3, 1>> }

(* ---------------------------- get_supply_struct as a process ----------- *)

Init ==
    /\ rec \in BoundedSeq(CoreRecords, MaxRecs)
    /\ map_dd_to_slow \in Overrides
    /\ dd_list = <<>>
    /\ acc = zeroth
    /\ pc = "resolve"
    /\ i = 1
    /\ result = None
    /\ plan = None

\* a missing registry read as an empty one: the fold goes ahead
ResolveFail_default ==
    /\ pc = "resolve"
    /\ FindRegistry(rec) = 0
    /\ dd_list' = <<>>
    /\ pc' = "fold"
    /\ UNCHANGED <<plan, rec, map_dd_to_slow, acc, i, result>>

\* the fold passing over the records that carry a registry
FoldStep_skip_registry ==
    /\ pc = "fold"
    /\ i <= Len(rec)
    /\ is_some(rec[i].account)
    /\ acc' = IF is_some(rec[i].comm_wallet) THEN acc ELSE inc_supply(acc, rec[i], dd_list)
    /\ i' = i + 1
    /\ UNCHANGED <<plan, rec, map_dd_to_slow, dd_list, pc, result>>

\* lines 78-83: no record carries a registry, `?` returns the error
ResolveFail ==
    /\ pc = "resolve"
    /\ FindRegistry(rec) = 0
    /\ pc' = "err"
    /\ UNCHANGED <<plan, rec, map_dd_to_slow, dd_list, acc, i, result>>

\* lines 78-88: the first registry found, filtered by the override list
Resolve ==
    /\ pc = "resolve"
    /\ FindRegistry(rec) # 0
    /\ dd_list' = EffectiveList(unwrap(rec[FindRegistry(rec)].comm_wallet), map_dd_to_slow)
    /\ pc' = "fold"
    /\ UNCHANGED <<plan, rec, map_dd_to_slow, acc, i, result>>

\* one iteration of try_fold: inc_supply on the next record
FoldStep ==
    /\ pc = "fold"
    /\ i <= Len(rec)
    /\ is_some(rec[i].account)
    /\ acc' = inc_supply(acc, rec[i], dd_list)
    /\ i' = i + 1
    /\ UNCHANGED <<plan, rec, map_dd_to_slow, dd_list, pc, result>>

\* line 33: r.account.unwrap() on a record without account panics
FoldPanic ==
    /\ pc = "fold"
    /\ i <= Len(rec)
    /\ ~ is_some(rec[i].account)
    /\ pc' = "panic"
    /\ UNCHANGED <<plan, rec, map_dd_to_slow, dd_list, acc, i, result>>

\* try_fold is through: Ok(acc) is returned
Return ==
    /\ pc = "fold"
    /\ i > Len(rec)
    /\ result' = Some(acc)
    /\ pc' = "ok"
    /\ UNCHANGED <<plan, rec, map_dd_to_slow, dd_list, acc, i>>

\* lines 134-147: the escrow figures of the returned Supply and the
\* assertion supply.total == sum_all, which panics when it fails
Plan ==
    /\ pc = "ok"
    /\ \E f \in Fractions :
          /\ plan' = Some(planner(unwrap(result), f))
          /\ pc' = IF FEqQ(Q(unwrap(result).total), planner(unwrap(result), f).sum_all)
                   THEN "planned" ELSE "assert_failed"
    /\ UNCHANGED <<rec, map_dd_to_slow, dd_list, acc, i, result>>

Next == ResolveFail \/ Resolve \/ FoldStep \/ FoldPanic \/ Return \/ Plan

Spec == Init /\ [][Next]_vars

(* ---------------------------- the classifier alone --------------------- *)

\* inc_supply applied to records drawn one at a time, from the zero Supply,
\* against a fixed effective list; rec holds the record classified last
InitClassify ==
    /\ rec = <<>>
    /\ map_dd_to_slow = <<>>
    /\ dd_list \in ClassifyLists
    /\ acc = zeroth
    /\ pc = "fold"
    /\ i = 1
    /\ result = None
    /\ plan = None

Classify ==
    /\ pc = "fold"
    /\ i <= MaxSteps
    /\ \E r \in ClassifyRecords :
          /\ is_some(r.account)
          /\ rec' = <<r>>
          /\ acc' = inc_supply(acc, r, dd_list)
    /\ i' = i + 1
    /\ UNCHANGED <<plan, map_dd_to_slow, dd_list, pc, result>>

ClassifyPanic ==
    /\ pc = "fold"
    /\ i <= MaxSteps
    /\ \E r \in ClassifyRecords :
          /\ ~ is_some(r.account)
          /\ rec' = <<r>>
    /\ pc' = "panic"
    /\ UNCHANGED <<plan, map_dd_to_slow, dd_list, acc, i, result>>

NextClassify == Classify \/ ClassifyPanic

SpecClassify == InitClassify /\ [][NextClassify]_vars

(* ---------------------------- properties ---------------------------- *)

\* a record was classified in this step; in SpecClassify it is rec'[1]
Stepped == pc = "fold" /\ pc' = "fold" /\ i' = i + 1

\* the record classified by the step just taken in SpecClassify
Last == rec[1]

\* a step of SpecClassify has classified a record
Classified == pc = "fold" /\ i > 1 /\ Len(rec) = 1

\* the balance of a record as an unsigned integer, absent is zero
Balance(r) == IF is_some(r.balance) THEN unwrap(r.balance) ELSE 0

RECURSIVE SumBalances(_)
SumBalances(rs) ==
    IF rs = <<>> THEN 0 ELSE Balance(Head(rs)) + SumBalances(Tail(rs))

InList(r) == contains(dd_list, unwrap(r.account))

\* C1 as stated: after every prefix of the fold and in the returned Supply,
\* normal + slow_total + donor_directed equals total, whether the sum is
\* taken exactly or in f64
C1_ConservationAsStated ==
    pc \in {"fold", "ok"} =>
        \/ acc.normal + acc.slow_total + acc.donor_directed = acc.total
        \/ FAdd(FAdd(acc.normal, acc.slow_total), acc.donor_directed) = acc.total

\* C1 amended: when the balances of the input sum to at most 2^MantBits
\* (2^53 in f64), normal + slow_total + donor_directed equals total after
\* every prefix of the fold and in the returned Supply
C1_Conservation ==
    (pc \in {"fold", "ok"} /\ SumBalances(rec) <= Big) =>
        /\ acc.normal + acc.slow_total + acc.donor_directed = acc.total
        /\ (pc = "ok" => result = Some(acc))

C1_Witness ==
    /\ pc = "ok"
    /\ SumBalances(rec) <= Big
    /\ unwrap(result).normal > 0
    /\ unwrap(result).slow_total > 0
    /\ unwrap(result).donor_directed > 0

\* C2: one classification step adds the record's amount to exactly one of
\* normal, slow_total and donor_directed and leaves the other two as they
\* were, whatever sub-records the record carries
C2_MutualExclusivity ==
    [][Stepped =>
        LET amt == Amount(rec'[1]) IN
        \/ /\ acc'.normal = FAdd(acc.normal, amt)
           /\ acc'.slow_total = acc.slow_total
           /\ acc'.donor_directed = acc.donor_directed
        \/ /\ acc'.slow_total = FAdd(acc.slow_total, amt)
           /\ acc'.normal = acc.normal
           /\ acc'.donor_directed = acc.donor_directed
        \/ /\ acc'.donor_directed = FAdd(acc.donor_directed, amt)
           /\ acc'.normal = acc.normal
           /\ acc'.slow_total = acc.slow_total]_vars

C2_Witness ==
    /\ Classified
    /\ ~ InList(Last)
    /\ is_some(Last.slow_wallet) /\ Last.val_cfg /\ Last.cumulative_deposits
    /\ acc.slow_total = 100 /\ acc.normal = 0 /\ acc.donor_directed = 0

\* C3: when no record carries a registry, get_supply_struct ends in the
\* error before any record is folded and returns no Supply
C3_MissingRegistry ==
    (FindRegistry(rec) = 0 /\ pc # "resolve") =>
        /\ pc = "err"
        /\ result = None
        /\ i = 1
        /\ acc = zeroth

C3_Witness ==
    /\ pc = "err"
    /\ Len(rec) = MaxRecs
    /\ \E k \in 1..Len(rec) : Balance(rec[k]) > 0

\* C4: a record whose address is in the effective list adds its amount to
\* total and donor_directed and changes no other field, whatever else it
\* carries
C4_DonorDirectedFirst ==
    [][(Stepped /\ contains(dd_list, unwrap(rec'[1].account))) =>
        acc' = [acc EXCEPT !.total = FAdd(@, Amount(rec'[1])),
                           !.donor_directed = FAdd(@, Amount(rec'[1]))]]_vars

C4_Witness ==
    /\ Classified
    /\ InList(Last)
    /\ is_some(Last.slow_wallet) /\ Last.val_cfg /\ Last.cumulative_deposits
    /\ acc.donor_directed = 100 /\ acc.total = 100 /\ acc.slow_total = 0

\* the change of the slow and validator fields that C5 describes, for a
\* locked amount
LockedEffect(a, b, r, locked) ==
    /\ b.slow_total = FAdd(a.slow_total, Amount(r))
    /\ b.slow_locked = FAdd(a.slow_locked, locked)
    /\ r.val_cfg =>
          /\ b.validator = FAdd(a.validator, Amount(r))
          /\ b.slow_validator_locked = FAdd(a.slow_validator_locked, locked)
    /\ ~ r.val_cfg =>
          /\ b.validator = a.validator
          /\ b.slow_validator_locked = a.slow_validator_locked

\* C5 as stated: every slow wallet outside the effective list with
\* balance > unlocked has balance - unlocked added to slow_locked
C5_SlowLockedAsStated ==
    [][(/\ Stepped
        /\ ~ contains(dd_list, unwrap(rec'[1].account))
        /\ is_some(rec'[1].slow_wallet)
        /\ Balance(rec'[1]) > unwrap(rec'[1].slow_wallet)) =>
        LockedEffect(acc, acc', rec'[1],
                     as_f64(Balance(rec'[1]) - unwrap(rec'[1].slow_wallet)))]_vars

\* C5 amended: a slow wallet outside the effective list with unlocked > 0
\* and balance > unlocked, both compared as f64, adds its amount to
\* slow_total and the f64 difference to slow_locked; with validator_config
\* it adds the amount to validator and the difference to
\* slow_validator_locked, without it both are unchanged
C5_SlowLocked ==
    [][(/\ Stepped
        /\ ~ contains(dd_list, unwrap(rec'[1].account))
        /\ is_some(rec'[1].slow_wallet)
        /\ unwrap(rec'[1].slow_wallet) > 0
        /\ Amount(rec'[1]) > as_f64(unwrap(rec'[1].slow_wallet))) =>
        LockedEffect(acc, acc', rec'[1],
                     FSub(Amount(rec'[1]), as_f64(unwrap(rec'[1].slow_wallet))))]_vars

C5_Witness ==
    /\ Classified
    /\ ~ InList(Last)
    /\ Last.slow_wallet = Some(40) /\ Last.balance = Some(100) /\ Last.val_cfg
    /\ acc.slow_locked = 60 /\ acc.validator = 100
    /\ acc.slow_validator_locked = 60 /\ acc.slow_total = 100

\* the three accounts of the scenario behind the record with the registry
Scenario ==
    << LegacyRecovery(Some(0), None, None, FALSE, FALSE, Some(<<3>>)),
       LegacyRecovery(Some(1), Some(100), None, FALSE, FALSE, None),
       LegacyRecovery(Some(2), Some(100), Some(40), TRUE, FALSE, None),
       LegacyRecovery(Some(3), Some(50), None, FALSE, FALSE, None) >>

\* C6 as stated: folding A (100, no flags), B (100, slow_wallet unlocked
\* 40, validator) and C (50, in the registry) returns total 250, normal
\* 100, slow_total 100, donor_directed 50, slow_unlocked 40, slow_locked
\* 60, validator 100 and slow_validator_locked 60
C6_Scenario ==
    (pc = "ok" /\ rec = Scenario /\ map_dd_to_slow = <<>>) =>
        unwrap(result) =
            [ total |-> 250, normal |-> 100, validator |-> 100,
              slow_total |-> 100, slow_locked |-> 60,
              slow_validator_locked |-> 60, slow_unlocked |-> 40,
              donor_directed |-> 50 ]

\* the record takes the cumulative-deposit branch of inc_supply
CumulativeBranch(r) ==
    /\ is_some(r.account)
    /\ ~ InList(r)
    /\ ~ is_some(r.slow_wallet)
    /\ r.cumulative_deposits

\* C7 as stated: when no record of the input takes the cumulative-deposit
\* branch, the returned Supply has slow_locked + slow_unlocked equal to
\* slow_total, whether the sum is taken exactly or in f64
C7_SlowSplit ==
    (pc = "ok" /\ \A k \in 1..Len(rec) : ~ CumulativeBranch(rec[k])) =>
        \/ acc.slow_locked + acc.slow_unlocked = acc.slow_total
        \/ FAdd(acc.slow_locked, acc.slow_unlocked) = acc.slow_total

\* C8: after any sequence of classification steps from the zero Supply,
\* slow_validator_locked is at most slow_locked and validator is at most
\* slow_total
C8_ValidatorSubAccounting ==
    /\ acc.slow_validator_locked <= acc.slow_locked
    /\ acc.validator <= acc.slow_total

C8_Witness ==
    /\ Classified
    /\ i = MaxSteps + 1
    /\ acc.slow_validator_locked > 0
    /\ acc.slow_validator_locked < acc.slow_locked
    /\ acc.validator < acc.slow_total

\* C9: a slow wallet outside the effective list with unlocked = 0 adds its
\* amount to total and slow_total and changes no other field, also with a
\* positive balance and validator_config
C9_ZeroUnlocked ==
    [][(/\ Stepped
        /\ ~ contains(dd_list, unwrap(rec'[1].account))
        /\ rec'[1].slow_wallet = Some(0)) =>
        acc' = [acc EXCEPT !.total = FAdd(@, Amount(rec'[1])),
                           !.slow_total = FAdd(@, Amount(rec'[1]))]]_vars

C9_Witness ==
    /\ Classified
    /\ ~ InList(Last)
    /\ Last.slow_wallet = Some(0) /\ Last.val_cfg /\ Last.balance = Some(100)
    /\ acc.slow_total = 100 /\ acc.slow_locked = 0 /\ acc.validator = 0

\* C10: a slow wallet outside the effective list with unlocked > 0 and
\* balance <= unlocked adds its amount to total, slow_total and
\* slow_unlocked and changes no other field, also with validator_config
C10_FullyUnlocked ==
    [][(/\ Stepped
        /\ ~ contains(dd_list, unwrap(rec'[1].account))
        /\ is_some(rec'[1].slow_wallet)
        /\ unwrap(rec'[1].slow_wallet) > 0
        /\ Balance(rec'[1]) <= unwrap(rec'[1].slow_wallet)) =>
        acc' = [acc EXCEPT !.total = FAdd(@, Amount(rec'[1])),
                           !.slow_total = FAdd(@, Amount(rec'[1])),
                           !.slow_unlocked = FAdd(@, Amount(rec'[1]))]]_vars

C10_Witness ==
    /\ Classified
    /\ ~ InList(Last)
    /\ Last.slow_wallet = Some(Big) /\ Last.val_cfg /\ Last.balance = Some(Big)
    /\ acc.slow_unlocked >= Big /\ acc.slow_locked = 0 /\ acc.validator = 0

\* C11: a record outside the effective list without slow_wallet adds its
\* amount to total, slow_locked and slow_total when it has
\* cumulative_deposits, and to total and normal when it has not; no other
\* field changes
C11_CumulativeAndNormal ==
    [][(/\ Stepped
        /\ ~ contains(dd_list, unwrap(rec'[1].account))
        /\ ~ is_some(rec'[1].slow_wallet)) =>
        IF rec'[1].cumulative_deposits
        THEN acc' = [acc EXCEPT !.total = FAdd(@, Amount(rec'[1])),
                                !.slow_locked = FAdd(@, Amount(rec'[1])),
                                !.slow_total = FAdd(@, Amount(rec'[1]))]
        ELSE acc' = [acc EXCEPT !.total = FAdd(@, Amount(rec'[1])),
                                !.normal = FAdd(@, Amount(rec'[1]))]]_vars

C11_Witness ==
    /\ Classified
    /\ ~ InList(Last)
    /\ ~ is_some(Last.slow_wallet) /\ Last.cumulative_deposits /\ Last.val_cfg
    /\ Last.balance = Some(100)
    /\ acc.slow_locked = 100 /\ acc.slow_total = 100 /\ acc.normal = 0

\* the list of the first record of the input that carries a registry
FirstRegistryList ==
    unwrap(rec[CHOOSE k \in 1..Len(rec) :
                  /\ is_some(rec[k].comm_wallet)
                  /\ \A j \in 1..(k - 1) : ~ is_some(rec[j].comm_wallet)].comm_wallet)

\* membership in the list used by the fold is membership in the registry
\* and not in the override list
EffectiveMembership ==
    \A a \in 0..3 :
        contains(dd_list, a) <=>
            (contains(FirstRegistryList, a) /\ ~ contains(map_dd_to_slow, a))

\* C12: the list used for classification has exactly the addresses of the
\* registry that are not in the override list; a record whose address is in
\* the registry and in the override list leaves donor_directed as it is and
\* adds its amount to normal or slow_total, and a record whose address is
\* in the registry and not in the override list adds its amount to
\* donor_directed
C12_EffectiveList ==
    [][/\ pc' \in {"fold", "ok"} => EffectiveMembership'
       /\ (Stepped /\ contains(FirstRegistryList, unwrap(rec[i].account))) =>
             IF contains(map_dd_to_slow, unwrap(rec[i].account))
             THEN /\ acc'.donor_directed = acc.donor_directed
                  /\ \/ acc'.normal = FAdd(acc.normal, Amount(rec[i]))
                     \/ acc'.slow_total = FAdd(acc.slow_total, Amount(rec[i]))
             ELSE /\ acc'.donor_directed = FAdd(acc.donor_directed, Amount(rec[i]))
                  /\ acc'.normal = acc.normal
                  /\ acc'.slow_total = acc.slow_total]_vars

C12_Witness ==
    /\ pc = "ok"
    /\ map_dd_to_slow = <<3>>
    /\ FindRegistry(rec) # 0
    /\ FirstRegistryList = <<1, 3>>
    /\ \E k \in 1..Len(rec) : rec[k].account = Some(3) /\ rec[k].cumulative_deposits
    /\ \E k \in 1..Len(rec) : rec[k].account = Some(1)
    /\ acc.donor_directed > 0
    /\ acc.slow_locked > 0

\* the permutations of 1..n, for every length of input
Perms == [n \in 0..(MaxRecs + 1) |->
            {p \in [1..n -> 1..n] : \A x, y \in 1..n : p[x] = p[y] => x = y}]

Permute(rs, p) == [k \in 1..Len(rs) |-> rs[p[k]]]

\* exactly one record of the input carries a registry
ValidRegistry(rs) ==
    Cardinality({k \in 1..Len(rs) : is_some(rs[k].comm_wallet)}) = 1

\* what the run of get_supply_struct has ended in
Outcome == [tag |-> pc, supply |-> IF pc = "ok" THEN unwrap(result) ELSE zeroth]

\* every permutation of the input ends as the run has ended
OrderIndependent ==
    \A p \in Perms[Len(rec)] :
        get_supply_struct(Permute(rec, p), map_dd_to_slow) = Outcome

\* C13 as stated: with exactly one registry in the input, every
\* permutation of the records gives the same Supply in all eight fields
C13_OrderIndependenceAsStated ==
    (pc \in {"ok", "panic"} /\ ValidRegistry(rec)) => OrderIndependent

\* C13 amended: with exactly one registry in the input and balances that
\* sum to at most 2^MantBits (2^53 in f64), every permutation of the
\* records gives the same Supply in all eight fields
C13_OrderIndependence ==
    (pc \in {"ok", "panic"} /\ ValidRegistry(rec) /\ SumBalances(rec) <= Big)
        => OrderIndependent

C13_Witness ==
    /\ pc = "ok"
    /\ ValidRegistry(rec)
    /\ SumBalances(rec) <= Big
    /\ Len(rec) >= 4
    /\ acc.normal > 0 /\ acc.slow_validator_locked > 0 /\ acc.donor_directed > 0
    /\ rec[1].account # Some(0)

\* field-wise f64 addition of two Supply values
Merge(a, b) == [f \in DOMAIN a |-> FAdd(a[f], b[f])]

\* the records of rs folded chunk by chunk from the zero Supply and the
\* chunk results merged; a chunk ends behind every index in cuts
RECURSIVE ChunkFold(_, _, _, _, _)
ChunkFold(merged, cur, rs, k, cuts) ==
    IF k > Len(rs) THEN Merge(merged, cur)
    ELSE LET c == inc_supply(cur, rs[k], dd_list)
         IN  IF k \in cuts
             THEN ChunkFold(Merge(merged, c), zeroth, rs, k + 1, cuts)
             ELSE ChunkFold(merged, c, rs, k + 1, cuts)

ChunkMergeEquivalent ==
    \A cuts \in SUBSET (1..(Len(rec) - 1)) :
        ChunkFold(zeroth, zeroth, rec, 1, cuts) = unwrap(result)

\* C14 as stated: with the effective list fixed, folding contiguous chunks
\* from the zero Supply and adding the chunk results field by field gives
\* the Supply of the one-pass fold, for every way of cutting the input
C14_ChunkMergeAsStated ==
    pc = "ok" => ChunkMergeEquivalent

\* C14 amended: the same, for inputs whose balances sum to at most
\* 2^MantBits (2^53 in f64)
C14_ChunkMerge ==
    (pc = "ok" /\ SumBalances(rec) <= Big) => ChunkMergeEquivalent

C14_Witness ==
    /\ pc = "ok"
    /\ SumBalances(rec) <= Big
    /\ Len(rec) >= 4
    /\ \A k \in 1..3 : Balance(rec[k]) > 0
    /\ acc.normal >= 200

\* C17 as stated: when the fold reaches a record without account, the run
\* ends in an error result returned to the caller, and no Supply is
\* returned
C17_MalformedRecord ==
    (/\ pc \notin {"resolve", "fold"}
     /\ i <= Len(rec)
     /\ ~ is_some(rec[i].account)) =>
        /\ pc = "err"
        /\ result = None

\* C18 as stated: the returned total is the sum of the balances of all
\* records of the input, taken exactly or cast to f64
C18_TotalAsStated ==
    pc = "ok" =>
        \/ unwrap(result).total = SumBalances(rec)
        \/ unwrap(result).total = as_f64(SumBalances(rec))

\* C18 amended: when the balances of the input sum to at most 2^MantBits
\* (2^53 in f64), total is the sum of the balances of the records folded so
\* far, the record with the registry included, and the returned total is
\* the sum over all records; a record without balance changes no field
C18_Total ==
    [][/\ (pc' \in {"fold", "ok"} /\ SumBalances(rec') <= Big) =>
             /\ acc'.total = SumBalances(SubSeq(rec', 1, i' - 1))
             /\ pc' = "ok" => (i' = Len(rec') + 1 /\ result' = Some(acc'))
       /\ (Stepped /\ ~ is_some(rec[i].balance)) => acc' = acc]_vars

C18_Witness ==
    /\ pc = "ok"
    /\ SumBalances(rec) <= Big
    /\ Len(rec) >= 3
    /\ is_some(rec[1].comm_wallet) /\ Balance(rec[1]) = 50
    /\ \E k \in 1..Len(rec) : ~ is_some(rec[k].balance)
    /\ unwrap(result).total = SumBalances(rec)
    /\ unwrap(result).total > 100

\* the records of the input that carry a registry
Registries == {k \in 1..Len(rec) : is_some(rec[k].comm_wallet)}

\* C19: when more than one record carries a registry, the run does not end
\* in the missing-registry error and classifies by the list of the first
\* such record, filtered by the override list
C19_FirstRegistry ==
    (Cardinality(Registries) > 1 /\ pc # "resolve") =>
        /\ pc # "err"
        /\ EffectiveMembership
        /\ \A k \in 1..Len(dd_list) : contains(FirstRegistryList, dd_list[k])

\* two registries with different lists, no rounding, and a permutation of
\* the input that returns another Supply
C19_Witness ==
    /\ pc = "ok"
    /\ Cardinality(Registries) = 2
    /\ SumBalances(rec) <= Big
    /\ \E p \in Perms[Len(rec)] :
          LET other == get_supply_struct(Permute(rec, p), map_dd_to_slow)
          IN  other.tag = "ok" /\ other.supply # unwrap(result)

\* the escrow arithmetic has run on the returned Supply
Planned == pc \in {"planned", "assert_failed"}

\* the exact value of a finite f64 pair x equals the integer n
ExactSumIs(te, ns, normal, dd, n) ==
    LET d == Max(te[2], ns[2])
    IN  te[1] * (d \div te[2]) + ns[1] * (d \div ns[2]) + (normal + dd) * d = n * d

C16_DivisionByZero ==
    (pc \notin {"resolve", "fold", "ok"} /\ result # None
        /\ unwrap(result).slow_validator_locked = 0) =>
        /\ pc = "division_error"
        /\ plan = None

====
